---- MODULE Spec2Model ----
(***************************************************************************)
(* Model of pacssim/ServerlessSimulator.py: the FunctionInstance state     *)
(* machine and the ServerlessSimulator event loop (generate_trace).        *)
(* Simulated times and durations are Python floats (IEEE-754 doubles);     *)
(* sums, differences and comparisons are computed as the doubles' are.     *)
(***************************************************************************)
EXTENDS Integers, Sequences, FiniteSets, TLC

\* ---------------------------------------------------------------- bounds
\* horizon, numbers of distinct durations the sources return, number of
\* thresholds above 0, cap on the requests of a run, greatest rate
MaxTime == 3
MaxArrival == 1
MaxCold == 2
MaxWarm == 2
MaxThreshold == 2
MaxReq == 3
MaxRate == 2

\* ------------------------------------------------------ float arithmetic
\* A time or duration x is held as the integer |x| * 2^FracBits, split in
\* two limbs (hi * Limb + lo), with its sign.  On multiples of 2^-FracBits
\* of magnitude below 2^(2 * LimbBits - FracBits - 1) = 32 the operators
\* below give the results of the operations on doubles exactly.
Precision == 53
FracBits == 54
LimbBits == 30
Limb == 2^LimbBits

\* the double of an int k: float(k), exact
float(k) ==
    [neg |-> k < 0,
     hi |-> (IF k < 0 THEN 0 - k ELSE k) * 2^(FracBits - LimbBits),
     lo |-> 0]

\* magnitudes: comparison, sum, difference of the larger and the smaller
mag_lt(x, y) == x.hi < y.hi \/ (x.hi = y.hi /\ x.lo < y.lo)

mag_add(x, y) ==
    [hi |-> x.hi + y.hi + ((x.lo + y.lo) \div Limb),
     lo |-> (x.lo + y.lo) % Limb]

mag_sub(x, y) ==
    IF x.lo >= y.lo
    THEN [hi |-> x.hi - y.hi, lo |-> x.lo - y.lo]
    ELSE [hi |-> x.hi - y.hi - 1, lo |-> x.lo + Limb - y.lo]

\* number of bits of a limb
bit_length(n) ==
    CHOOSE k \in 0..(LimbBits + 1) : n < 2^k /\ (k = 0 \/ n >= 2^(k - 1))

\* a magnitude with a sign; zero carries no sign
signed(neg, m) ==
    [neg |-> neg /\ (m.hi # 0 \/ m.lo # 0), hi |-> m.hi, lo |-> m.lo]

\* magnitude m with the sign neg, rounded to Precision significant bits,
\* ties to even; drop is the number of bits m has beyond Precision
round_bits(neg, m, drop) ==
    IF drop <= 0 THEN signed(neg, m)
    ELSE LET q == 2^drop
             r == m.lo % q
             up == 2 * r > q \/ (2 * r = q /\ (m.lo \div q) % 2 = 1)
             lo == IF up THEN m.lo - r + q ELSE m.lo - r
         IN  [neg |-> neg, hi |-> m.hi + (lo \div Limb), lo |-> lo % Limb]

\* (the operands are bound once, through singleton sets)
round(neg, m) ==
    CHOOSE r \in {round_bits(neg, mv, drop) :
                     mv \in {m},
                     drop \in {bit_length(m.hi) + LimbBits - Precision}} : TRUE

\* the sum of two floats, rounded
add(a, b) ==
    IF a.neg = b.neg THEN round(a.neg, mag_add(a, b))
    ELSE IF mag_lt(a, b) THEN round(b.neg, mag_sub(b, a))
    ELSE round(a.neg, mag_sub(a, b))

\* x + y
float_add(x, y) == CHOOSE r \in {add(a, b) : a \in {x}, b \in {y}} : TRUE

float_neg(x) == signed(~x.neg, x)

\* x - y
float_sub(x, y) == float_add(x, float_neg(y))

\* x < y, x <= y
lt(a, b) ==
    IF a.neg # b.neg THEN a.neg
    ELSE IF a.neg THEN mag_lt(b, a) ELSE mag_lt(a, b)

float_lt(x, y) == CHOOSE r \in {lt(a, b) : a \in {x}, b \in {y}} : TRUE

float_le(x, y) == ~float_lt(y, x)

\* ------------------------------------------------------------------ inputs
Zero == float(0)
One == float(1)
\* the doubles 0.9 (0x3FECCCCCCCCCCCCD) and 0.3 (0x3FD3333333333333)
D09 == [neg |-> FALSE, hi |-> 15099494, lo |-> 429496730]
D03 == [neg |-> FALSE, hi |-> 5033164, lo |-> 858993459]
\* the double 2^-54, a positive duration too small to move a clock >= 0.5
Tiny == [neg |-> FALSE, hi |-> 0, lo |-> 1]

\* simulation horizon (constructor argument max_time)
max_time == float(MaxTime)
\* durations a sampling source may return (non-negative)
Durations == <<Zero, D09, One, float(2), float(3)>>
\* arrival sources a simulator may be constructed with, each the set of the
\* durations it returns: always 0; 0 and more; at least 1; positive with a
\* duration too small to move the clock
ArrivalProcesses ==
    {{Zero},
     {Durations[i] : i \in 1..(MaxArrival + 1)},
     {Durations[i] : i \in 3..(MaxArrival + 3)},
     {Tiny, One}}
\* the cold-service and the warm-service source, as sets of durations
ColdServiceProcess == {Durations[i] : i \in 1..MaxCold}
WarmServiceProcess == {Durations[i] : i \in 1..MaxWarm}
\* values of the constructor argument expiration_threshold (not validated)
ThresholdValues == <<float(-1), Zero, D03, Tiny, One, float(2)>>
Thresholds == {ThresholdValues[i] : i \in 1..(MaxThreshold + 2)}
\* times a caller may pass to the methods of a FunctionInstance
CallTimes == {Zero} \cup {(<<D03, D09, One, float(2)>>)[i] : i \in 1..MaxTime}

VARIABLES
    expiration_threshold,   \* ServerlessSimulator.expiration_threshold
    servers,                \* live instances, in list order
    prev_servers,           \* archive of terminated instances
    total_req_count, total_cold_count, total_warm_count,
    server_count, running_count, idle_count,
    t,                      \* local clock of generate_trace
    next_arrival,           \* local next_arrival of generate_trace
    pc,                     \* "new" | "loop" | "done" | "error"
    event,                  \* branch taken by the last step of the simulator
    inst,                   \* a FunctionInstance driven directly by a caller
    call,                   \* the last call made on inst and its outcome
    arrival_process,        \* ServerlessSimulator.arrival_process: the
                            \* set of durations the source returns
    cold_service_process,   \* ServerlessSimulator.cold_service_process
    warm_service_process,   \* ServerlessSimulator.warm_service_process
    ctor                    \* arguments and outcome of a constructor call

\* values the sampling sources may return (non-negative durations)
ArrivalSamples == arrival_process
ColdSamples == cold_service_process
WarmSamples == warm_service_process

\* the three sampling sources of a simulator
processes == <<arrival_process, cold_service_process, warm_service_process>>

simvars == <<expiration_threshold, servers, prev_servers, total_req_count,
             total_cold_count, total_warm_count, server_count, running_count,
             idle_count, t, next_arrival, pc, event, processes>>
vars == <<expiration_threshold, servers, prev_servers, total_req_count,
          total_cold_count, total_warm_count, server_count, running_count,
          idle_count, t, next_arrival, pc, event, inst, call,
          processes, ctor>>

\* ------------------------------------------------------- FunctionInstance

update_next_termination(s) ==
    [s EXCEPT !.next_termination =
           float_add(s.next_departure, s.expiration_threshold)]

\* FunctionInstance.__init__(t, ...) with cold-service sample c; id stands
\* for the identity of the created object
FunctionInstance(id, tm, c, thr) ==
    update_next_termination(
        [id |-> id,
         expiration_threshold |-> thr,
         creation_time |-> tm,
         state |-> "COLD",
         is_busy |-> TRUE,
         is_cold |-> TRUE,
         next_departure |-> float_add(tm, c),
         next_termination |-> Zero])

get_life_span(s) == float_sub(s.next_termination, s.creation_time)

get_state(s) == s.state

is_idle(s) == s.state = "IDLE"

\* variant: the termination timer is not recomputed
arrival_transition_stale(s, tm, w) ==
    IF s.state = "COLD" \/ s.state = "WARM"
    THEN [raised |-> TRUE, inst |-> s]
    ELSE IF s.state = "IDLE"
    THEN [raised |-> FALSE,
          inst |-> [s EXCEPT !.state = "WARM",
                             !.is_busy = TRUE,
                             !.next_departure = float_add(tm, w)]]
    ELSE [raised |-> FALSE, inst |-> s]

\* variant: "else" in place of "elif self.state == 'IDLE'"
arrival_transition_else(s, tm, w) ==
    IF s.state = "COLD" \/ s.state = "WARM"
    THEN [raised |-> TRUE, inst |-> s]
    ELSE [raised |-> FALSE,
          inst |-> update_next_termination(
                     [s EXCEPT !.state = "WARM",
                               !.is_busy = TRUE,
                               !.next_departure = float_add(tm, w)])]

\* variant: only a COLD instance is reported busy
arrival_transition_coldonly(s, tm, w) ==
    IF s.state = "COLD"
    THEN [raised |-> TRUE, inst |-> s]
    ELSE IF s.state = "IDLE"
    THEN [raised |-> FALSE,
          inst |-> update_next_termination(
                     [s EXCEPT !.state = "WARM",
                               !.is_busy = TRUE,
                               !.next_departure = float_add(tm, w)])]
    ELSE [raised |-> FALSE, inst |-> s]

\* arrival_transition(t) with warm-service sample w
arrival_transition(s, tm, w) ==
    IF s.state = "COLD" \/ s.state = "WARM"
    THEN [raised |-> TRUE, inst |-> s]
    ELSE IF s.state = "IDLE"
    THEN [raised |-> FALSE,
          inst |-> update_next_termination(
                     [s EXCEPT !.state = "WARM",
                               !.is_busy = TRUE,
                               !.next_departure = float_add(tm, w)])]
    ELSE [raised |-> FALSE, inst |-> s]

make_transition(s) ==
    IF s.state = "COLD" \/ s.state = "WARM"
    THEN [raised |-> FALSE, ret |-> "IDLE",
          inst |-> [s EXCEPT !.state = "IDLE", !.is_busy = FALSE,
                             !.is_cold = FALSE]]
    ELSE IF s.state = "IDLE"
    THEN [raised |-> FALSE, ret |-> "TERM",
          inst |-> [s EXCEPT !.state = "TERM", !.is_busy = FALSE]]
    ELSE [raised |-> TRUE, ret |-> "NONE", inst |-> s]

get_next_departure(s, tm) ==
    IF float_lt(s.next_departure, tm)
    THEN [raised |-> TRUE, ret |-> Zero]
    ELSE [raised |-> FALSE, ret |-> float_sub(s.next_departure, tm)]

\* variant: no check that tm is not past the termination
get_next_termination_nocheck(s, tm) ==
    [raised |-> FALSE, ret |-> float_sub(s.next_termination, tm)]

get_next_termination(s, tm) ==
    IF float_lt(s.next_termination, tm)
    THEN [raised |-> TRUE, ret |-> Zero]
    ELSE [raised |-> FALSE, ret |-> float_sub(s.next_termination, tm)]

get_next_transition_time(s, tm) ==
    IF s.state = "IDLE"
    THEN get_next_termination(s, tm)
    ELSE get_next_departure(s, tm)

\* ------------------------------------------------------------ numpy helpers

\* np.argmin: index of the first occurrence of the minimum
argmin(a) ==
    CHOOSE k \in 1..Len(a) :
        /\ \A j \in 1..Len(a) : float_le(a[k], a[j])
        /\ \A j \in 1..(k - 1) : float_lt(a[k], a[j])

\* variant: the oldest instead of the newest
argmax_oldest(a) == argmin(a)

\* np.argmax: index of the first occurrence of the maximum
argmax(a) ==
    CHOOSE k \in 1..Len(a) :
        /\ \A j \in 1..Len(a) : float_le(a[j], a[k])
        /\ \A j \in 1..(k - 1) : float_lt(a[j], a[k])

\* ndarray.min()
amin(a) == a[argmin(a)]

\* variant: lst.pop() in place of del lst[idx]
DelAt_pop(lst, idx) == SubSeq(lst, 1, Len(lst) - 1)

\* del lst[idx]
DelAt(lst, idx) == SubSeq(lst, 1, idx - 1) \o SubSeq(lst, idx + 1, Len(lst))

\* ---------------------------------------------------- ServerlessSimulator

has_server == Len(servers) > 0

\* positions in servers of [s for s in self.servers if s.is_idle()]
idle_instances ==
    SelectSeq([i \in 1..Len(servers) |-> i], LAMBDA i : is_idle(servers[i]))

creation_times ==
    [k \in 1..Len(idle_instances) |-> servers[idle_instances[k]].creation_time]

\* [s.get_next_transition_time(t) for s in self.servers]
server_next_transitions ==
    [i \in 1..Len(servers) |-> get_next_transition_time(servers[i], t).ret]

transition_time_raises ==
    \E i \in 1..Len(servers) : get_next_transition_time(servers[i], t).raised

\* record of a call on inst: method, time argument, service sample drawn,
\* whether it raised, the state returned, the number returned
NoCall == [op |-> "none", t |-> Zero, sample |-> Zero, raised |-> FALSE,
           ret |-> "NONE", val |-> Zero]

\* no constructor call recorded
NoCtor == [done |-> FALSE]

\* variant: "<=" in place of "<"
arrival_is_next_le ==
    float_le(float_sub(next_arrival, t), amin(server_next_transitions))

\* if (next_arrival - t) < server_next_transitions.min()
arrival_is_next ==
    float_lt(float_sub(next_arrival, t), amin(server_next_transitions))

\* variant: off by one
is_warm_start_gt1 == idle_count > 1

\* if self.idle_count > 0
is_warm_start == idle_count > 0

\* variant: the clock is not moved to the arrival
arrival_clock_stay == t

\* t = next_arrival
arrival_clock == next_arrival

\* t = t + server_next_transitions[idx]
transition_clock(idx) == float_add(t, server_next_transitions[idx])

\* variant: the archive is overwritten instead of appended to
archive_terminated_only(s) == <<s>>

\* self.prev_servers.append(self.servers[idx])
archive_terminated(s) == Append(prev_servers, s)

\* state after construction; the trace attributes are created by reset_trace
Constructed ==
    /\ expiration_threshold \in Thresholds
    /\ servers = << >>
    /\ prev_servers = << >>
    /\ total_req_count = 0
    /\ total_cold_count = 0
    /\ total_warm_count = 0
    /\ server_count = 0
    /\ running_count = 0
    /\ idle_count = 0
    /\ t = Zero
    /\ next_arrival = Zero
    /\ pc = "new"
    /\ event = "init"
    /\ inst = FunctionInstance(0, Zero, Zero, Zero)
    /\ call = NoCall
    /\ ctor = NoCtor

\* a simulator constructed with any of the arrival sources
Init ==
    /\ Constructed
    /\ arrival_process \in ArrivalProcesses
    /\ cold_service_process = ColdServiceProcess
    /\ warm_service_process = WarmServiceProcess

\* variant: the archive of the previous run is kept
reset_trace_keeps_archive ==
    /\ prev_servers' = prev_servers
    /\ total_req_count' = 0
    /\ total_cold_count' = 0
    /\ total_warm_count' = 0
    /\ servers' = << >>
    /\ server_count' = 0
    /\ running_count' = 0
    /\ idle_count' = 0

reset_trace ==
    /\ prev_servers' = << >>
    /\ total_req_count' = 0
    /\ total_cold_count' = 0
    /\ total_warm_count' = 0
    /\ servers' = << >>
    /\ server_count' = 0
    /\ running_count' = 0
    /\ idle_count' = 0

\* a caller invokes reset_trace() outside a run
ResetTrace ==
    /\ pc # "loop"
    /\ reset_trace
    /\ event' = "reset"
    /\ UNCHANGED <<expiration_threshold, t, next_arrival, pc, inst, call,
                   processes, ctor>>

\* generate_trace up to the loop head: reset, t = 0, first arrival sample
GenerateTrace ==
    /\ pc # "loop"
    /\ reset_trace
    /\ t' = Zero
    /\ \E a \in ArrivalSamples : next_arrival' = float_add(Zero, a)
    /\ pc' = "loop"
    /\ event' = "start"
    /\ UNCHANGED <<expiration_threshold, inst, call, processes, ctor>>

\* variant: the loop tests next_arrival in place of the clock
LoopExit_next_arrival ==
    /\ pc = "loop"
    /\ ~float_lt(next_arrival, max_time)
    /\ pc' = "done"
    /\ event' = "exit"
    /\ UNCHANGED <<expiration_threshold, servers, prev_servers,
                   total_req_count, total_cold_count, total_warm_count,
                   server_count, running_count, idle_count, t, next_arrival,
                   inst, call, processes, ctor>>

\* while t < self.max_time: ... falls through
LoopExit ==
    /\ pc = "loop"
    /\ ~float_lt(t, max_time)
    /\ pc' = "done"
    /\ event' = "exit"
    /\ UNCHANGED <<expiration_threshold, servers, prev_servers,
                   total_req_count, total_cold_count, total_warm_count,
                   server_count, running_count, idle_count, t, next_arrival,
                   inst, call, processes, ctor>>

\* variant: running_count is not incremented
cold_start_arrival_norun(tm, c) ==
    /\ total_req_count' = total_req_count + 1
    /\ total_cold_count' = total_cold_count + 1
    /\ server_count' = server_count + 1
    /\ running_count' = running_count
    /\ servers' = Append(servers,
                         FunctionInstance(total_cold_count + 1, tm, c,
                                          expiration_threshold))
    /\ UNCHANGED <<prev_servers, total_warm_count, idle_count>>

\* variant: total_req_count is not incremented
cold_start_arrival_noreq(tm, c) ==
    /\ total_req_count' = total_req_count
    /\ total_cold_count' = total_cold_count + 1
    /\ server_count' = server_count + 1
    /\ running_count' = running_count + 1
    /\ servers' = Append(servers,
                         FunctionInstance(total_cold_count + 1, tm, c,
                                          expiration_threshold))
    /\ UNCHANGED <<prev_servers, total_warm_count, idle_count>>

\* cold_start_arrival(tm) with cold-service sample c
cold_start_arrival(tm, c) ==
    /\ total_req_count' = total_req_count + 1
    /\ total_cold_count' = total_cold_count + 1
    /\ server_count' = server_count + 1
    /\ running_count' = running_count + 1
    /\ servers' = Append(servers,
                         FunctionInstance(total_cold_count + 1, tm, c,
                                          expiration_threshold))
    /\ UNCHANGED <<prev_servers, total_warm_count, idle_count>>

\* schedule_warm_instance(tm) with warm-service sample w; ok is FALSE when
\* the call raises (argmax of an empty array, or arrival_transition raising)
schedule_warm_instance(tm, w, ok) ==
    /\ total_req_count' = total_req_count + 1
    /\ total_warm_count' = total_warm_count + 1
    /\ IF Len(idle_instances) = 0
       THEN /\ ok = FALSE
            /\ servers' = servers
       ELSE LET idx == argmax(creation_times)
                r == arrival_transition(servers[idle_instances[idx]], tm, w)
            IN  /\ ok = ~r.raised
                /\ servers' = [servers EXCEPT ![idle_instances[idx]] = r.inst]

\* variant: idle_count is not decremented
warm_start_arrival_keeps_idle(tm, w, ok) ==
    /\ idle_count' = idle_count
    /\ running_count' = running_count + 1
    /\ schedule_warm_instance(tm, w, ok)
    /\ UNCHANGED <<prev_servers, total_cold_count, server_count>>

\* warm_start_arrival(tm)
warm_start_arrival(tm, w, ok) ==
    /\ idle_count' = idle_count - 1
    /\ running_count' = running_count + 1
    /\ schedule_warm_instance(tm, w, ok)
    /\ UNCHANGED <<prev_servers, total_cold_count, server_count>>

\* loop body, branch "no servers": the arrival is a cold start
ArrivalNoServer ==
    /\ pc = "loop"
    /\ float_lt(t, max_time)
    /\ ~has_server
    /\ total_req_count < MaxReq
    /\ t' = arrival_clock
    /\ \E a \in ArrivalSamples : next_arrival' = float_add(t', a)
    /\ \E c \in ColdSamples : cold_start_arrival(t', c)
    /\ event' = "cold"
    /\ UNCHANGED <<expiration_threshold, pc, inst, call, processes, ctor>>

\* loop body: building server_next_transitions raises
TransitionTimeError ==
    /\ pc = "loop"
    /\ float_lt(t, max_time)
    /\ has_server
    /\ transition_time_raises
    /\ pc' = "error"
    /\ event' = "error"
    /\ UNCHANGED <<expiration_threshold, servers, prev_servers,
                   total_req_count, total_cold_count, total_warm_count,
                   server_count, running_count, idle_count, t, next_arrival,
                   inst, call, processes, ctor>>

\* loop body, branch "next transition is arrival", idle_count > 0
ArrivalWarm ==
    /\ pc = "loop"
    /\ float_lt(t, max_time)
    /\ has_server
    /\ ~transition_time_raises
    /\ arrival_is_next
    /\ is_warm_start
    /\ total_req_count < MaxReq
    /\ t' = arrival_clock
    /\ \E a \in ArrivalSamples : next_arrival' = float_add(t', a)
    /\ \E w \in WarmSamples, ok \in BOOLEAN :
          /\ warm_start_arrival(t', w, ok)
          /\ pc' = IF ok THEN "loop" ELSE "error"
          /\ event' = IF ok THEN "warm" ELSE "error"
    /\ UNCHANGED <<expiration_threshold, inst, call, processes, ctor>>

\* loop body, branch "next transition is arrival", idle_count <= 0
ArrivalCold ==
    /\ pc = "loop"
    /\ float_lt(t, max_time)
    /\ has_server
    /\ ~transition_time_raises
    /\ arrival_is_next
    /\ ~is_warm_start
    /\ total_req_count < MaxReq
    /\ t' = arrival_clock
    /\ \E a \in ArrivalSamples : next_arrival' = float_add(t', a)
    /\ \E c \in ColdSamples : cold_start_arrival(t', c)
    /\ event' = "cold"
    /\ UNCHANGED <<expiration_threshold, pc, inst, call, processes, ctor>>

\* loop body, branch "state change in one of servers"
InstanceTransition ==
    /\ pc = "loop"
    /\ float_lt(t, max_time)
    /\ has_server
    /\ ~transition_time_raises
    /\ ~arrival_is_next
    /\ LET idx == argmin(server_next_transitions)
           r == make_transition(servers[idx])
       IN  /\ t' = transition_clock(idx)
           /\ IF r.raised
              THEN /\ pc' = "error"
                   /\ event' = "error"
                   /\ UNCHANGED <<servers, prev_servers, idle_count,
                                  server_count, running_count>>
              ELSE IF r.ret = "TERM"
              THEN /\ prev_servers' = archive_terminated(r.inst)
                   /\ idle_count' = idle_count - 1
                   /\ server_count' = server_count - 1
                   /\ servers' = DelAt(servers, idx)
                   /\ pc' = "loop"
                   /\ event' = "expiration"
                   /\ UNCHANGED running_count
              ELSE IF r.ret = "IDLE"
              THEN /\ servers' = [servers EXCEPT ![idx] = r.inst]
                   /\ running_count' = running_count - 1
                   /\ idle_count' = idle_count + 1
                   /\ pc' = "loop"
                   /\ event' = "departure"
                   /\ UNCHANGED <<prev_servers, server_count>>
              ELSE /\ servers' = [servers EXCEPT ![idx] = r.inst]
                   /\ pc' = "error"
                   /\ event' = "error"
                   /\ UNCHANGED <<prev_servers, idle_count, server_count,
                                  running_count>>
    /\ UNCHANGED <<expiration_threshold, total_req_count, total_cold_count,
                   total_warm_count, next_arrival, inst, call,
                   processes, ctor>>

Next ==
    \/ ResetTrace
    \/ GenerateTrace
    \/ LoopExit
    \/ ArrivalNoServer
    \/ TransitionTimeError
    \/ ArrivalWarm
    \/ ArrivalCold
    \/ InstanceTransition

Spec == Init /\ [][Next]_vars

\* ------------------------------------------------- runs of unbounded length

\* requests a run is followed for once it has served MaxReq of them: enough
\* for an arrival every 0.3 up to max_time
MaxRunReq == 4 * MaxTime

\* loop body, the arrival branches (no servers, or next transition is
\* arrival) of a run that has served MaxReq requests or more
ArrivalPastCap ==
    /\ pc = "loop"
    /\ float_lt(t, max_time)
    /\ MaxReq <= total_req_count
    /\ total_req_count < MaxRunReq
    /\ IF has_server
       THEN ~transition_time_raises /\ arrival_is_next
       ELSE TRUE
    /\ t' = arrival_clock
    /\ \E a \in ArrivalSamples : next_arrival' = float_add(t', a)
    /\ IF has_server /\ is_warm_start
       THEN \E w \in WarmSamples, ok \in BOOLEAN :
               /\ warm_start_arrival(t', w, ok)
               /\ pc' = IF ok THEN "loop" ELSE "error"
               /\ event' = IF ok THEN "warm" ELSE "error"
       ELSE \E c \in ColdSamples :
               /\ cold_start_arrival(t', c)
               /\ pc' = pc
               /\ event' = "cold"
    /\ UNCHANGED <<expiration_threshold, inst, call, processes, ctor>>

NextLive == Next \/ ArrivalPastCap

\* the loop of generate_trace runs on by itself: one iteration after another
LoopStep ==
    \/ LoopExit
    \/ ArrivalNoServer
    \/ TransitionTimeError
    \/ ArrivalWarm
    \/ ArrivalCold
    \/ ArrivalPastCap
    \/ InstanceTransition

\* arrival sources whose durations all move the clock
AdvancingArrivalProcesses ==
    {{D09},
     {Durations[i] : i \in 2..(MaxArrival + 2)},
     {Durations[i] : i \in 3..(MaxArrival + 3)}}

\* the simulators whose runs are followed under fairness: one with an
\* arrival source that moves the clock; one under load, with arrivals 0.3
\* apart, cold starts that take 0.9 and warm service that takes no time;
\* and one whose three sources all return 0
InitLive ==
    /\ Constructed
    /\ \/ /\ arrival_process \in AdvancingArrivalProcesses
          /\ cold_service_process = ColdServiceProcess
          /\ warm_service_process = WarmServiceProcess
       \/ /\ arrival_process = {D03}
          /\ cold_service_process = {D09}
          /\ warm_service_process = {Zero}
       \/ /\ arrival_process = {Zero}
          /\ cold_service_process = {Zero}
          /\ warm_service_process = {Zero}

\* the loop of generate_trace under fairness; a run is followed for MaxRunReq
\* requests, which no run of InitLive whose arrivals move the clock reaches
SpecLive == InitLive /\ [][NextLive]_vars /\ WF_vars(LoopStep)

\* ------------------------------------- FunctionInstance driven by a caller

\* a FunctionInstance is constructed outside any run of the simulator
InitFI ==
    /\ expiration_threshold \in Thresholds
    /\ servers = << >>
    /\ prev_servers = << >>
    /\ total_req_count = 0
    /\ total_cold_count = 0
    /\ total_warm_count = 0
    /\ server_count = 0
    /\ running_count = 0
    /\ idle_count = 0
    /\ t = Zero
    /\ next_arrival = Zero
    /\ pc = "new"
    /\ event = "init"
    /\ arrival_process = {Zero}
    /\ cold_service_process = ColdServiceProcess
    /\ warm_service_process = WarmServiceProcess
    /\ \E tm \in CallTimes, c \in ColdSamples :
          /\ inst = FunctionInstance(1, tm, c, expiration_threshold)
          /\ call = [NoCall EXCEPT !.op = "__init__", !.t = tm, !.sample = c]
    /\ ctor = NoCtor

CallArrivalTransition ==
    /\ \E tm \in CallTimes, w \in WarmSamples :
          LET r == arrival_transition(inst, tm, w)
          IN  /\ inst' = r.inst
              /\ call' = [NoCall EXCEPT !.op = "arrival_transition", !.t = tm,
                                        !.sample = w, !.raised = r.raised]
    /\ UNCHANGED <<simvars, ctor>>

CallMakeTransition ==
    /\ LET r == make_transition(inst)
       IN  /\ inst' = r.inst
           /\ call' = [NoCall EXCEPT !.op = "make_transition",
                                     !.raised = r.raised, !.ret = r.ret]
    /\ UNCHANGED <<simvars, ctor>>

CallGetNextTransitionTime ==
    /\ \E tm \in CallTimes :
          LET r == get_next_transition_time(inst, tm)
          IN  call' = [NoCall EXCEPT !.op = "get_next_transition_time",
                                     !.t = tm, !.raised = r.raised,
                                     !.val = r.ret]
    /\ UNCHANGED inst
    /\ UNCHANGED <<simvars, ctor>>

NextFI ==
    \/ CallArrivalTransition
    \/ CallMakeTransition
    \/ CallGetNextTransitionTime

SpecFI == InitFI /\ [][NextFI]_vars

\* --------------------------------------- construction of ServerlessSimulator

\* a sampling source passed to the constructor, or None
NoProcess == [kind |-> "None"]
GivenProcess == [kind |-> "given"]

\* ExpSimProcess(rate=rate): an exponential sampling source
ExpSimProcess(rate) == [kind |-> "ExpSimProcess", rate |-> rate]

\* rates a caller may pass, and the keyword arguments built from them
Rates == 1..MaxRate
RateKeys == {"arrival_rate", "warm_service_rate", "cold_service_rate"}
Kwargs == UNION {[K -> Rates] : K \in SUBSET RateKeys}

\* variant: equal rates are rejected too
rates_rejected_le(kw) ==
    /\ "warm_service_rate" \in DOMAIN kw
    /\ "cold_service_rate" \in DOMAIN kw
    /\ kw["warm_service_rate"] <= kw["cold_service_rate"]

\* both rates in kwargs and warm_service_rate < cold_service_rate
rates_rejected(kw) ==
    /\ "warm_service_rate" \in DOMAIN kw
    /\ "cold_service_rate" \in DOMAIN kw
    /\ kw["warm_service_rate"] < kw["cold_service_rate"]

\* the source an argument pair resolves to: the rate, when given, wins
resolve(process, key, kw) ==
    IF key \in DOMAIN kw THEN ExpSimProcess(kw[key]) ELSE process

\* ServerlessSimulator.__init__: the error raised, or "" on success
ServerlessSimulator_init(ap, wp, cp, kw) ==
    LET a == resolve(ap, "arrival_rate", kw)
        w == resolve(wp, "warm_service_rate", kw)
        c == resolve(cp, "cold_service_rate", kw)
        err == IF a = NoProcess THEN "Arrival process not defined!"
               ELSE IF rates_rejected(kw)
               THEN "Warm service rate cannot be smaller than cold service rate!"
               ELSE IF w = NoProcess THEN "Warm Service process not defined!"
               ELSE IF c = NoProcess THEN "Cold Service process not defined!"
               ELSE ""
    IN  [raised |-> err # "", error |-> err,
         arrival_process |-> a, warm_service_process |-> w,
         cold_service_process |-> c]

\* a caller is about to construct a simulator with some arguments
InitCtor ==
    /\ expiration_threshold = Zero
    /\ servers = << >>
    /\ prev_servers = << >>
    /\ total_req_count = 0
    /\ total_cold_count = 0
    /\ total_warm_count = 0
    /\ server_count = 0
    /\ running_count = 0
    /\ idle_count = 0
    /\ t = Zero
    /\ next_arrival = Zero
    /\ pc = "new"
    /\ event = "init"
    /\ inst = FunctionInstance(0, Zero, Zero, Zero)
    /\ call = NoCall
    /\ arrival_process = {Zero}
    /\ cold_service_process = ColdServiceProcess
    /\ warm_service_process = WarmServiceProcess
    /\ \E ap \in {NoProcess, GivenProcess}, wp \in {NoProcess, GivenProcess},
          cp \in {NoProcess, GivenProcess}, kw \in Kwargs :
          ctor = [done |-> FALSE, arrival_process |-> ap,
                  warm_service_process |-> wp, cold_service_process |-> cp,
                  kwargs |-> kw, result |-> NoCtor]

\* ServerlessSimulator(arrival_process=..., ..., **kwargs)
Construct ==
    /\ ~ctor.done
    /\ ctor' = [ctor EXCEPT
                  !.done = TRUE,
                  !.result = ServerlessSimulator_init(
                                 ctor.arrival_process,
                                 ctor.warm_service_process,
                                 ctor.cold_service_process, ctor.kwargs)]
    /\ UNCHANGED <<simvars, inst, call>>

NextCtor == Construct

SpecCtor == InitCtor /\ [][NextCtor]_vars

\* ================================================================ properties

Range(q) == {q[i] : i \in 1..Len(q)}

\* every FunctionInstance: the one driven by a caller, the live, the archived
AllInstances == {inst} \cup Range(servers) \cup Range(prev_servers)

\* events dispatched by the loop of generate_trace
Dispatched == {"cold", "warm", "departure", "expiration"}
Arrivals == {"cold", "warm"}

\* a step of the loop of generate_trace that dispatches an arrival
ArrivalStep == pc = "loop" /\ event' \in Arrivals

\* time to the scheduled event of s, as the lifecycle defines it
TimeToEvent(s) ==
    IF s.state = "IDLE" THEN float_sub(s.next_termination, t)
    ELSE float_sub(s.next_departure, t)

\* C1: timer invariant: every instance, after construction and after any
\* sequence of arrival_transition / make_transition calls, has
\* next_termination = next_departure + expiration_threshold
C1_TimerInvariant ==
    \A s \in AllInstances :
        s.next_termination
            = float_add(s.next_departure, s.expiration_threshold)

\* an IDLE instance has accepted an arrival later than its creation, and its
\* termination is due after its departure
C1_Witness ==
    /\ call.op = "arrival_transition"
    /\ ~call.raised
    /\ inst.state = "WARM"
    /\ float_lt(inst.creation_time, call.t)
    /\ inst.next_departure = float_add(call.t, call.sample)
    /\ float_lt(inst.next_departure, inst.next_termination)

\* C2: after every dispatched event, running_count + idle_count =
\* server_count = len(servers)
C2_CountersMatchLive ==
    event \in Dispatched =>
        /\ running_count + idle_count = server_count
        /\ server_count = Len(servers)

\* an expiration was dispatched after a warm start, leaving live instances
C2_Witness ==
    /\ event = "expiration"
    /\ running_count + idle_count > 0
    /\ total_warm_count > 0

\* C3: after every dispatched event total_req_count = total_cold_count +
\* total_warm_count, and each dispatched arrival adds exactly 1 to
\* total_req_count
C3_RequestAccounting ==
    [][/\ event' \in Dispatched =>
              total_req_count' = total_cold_count' + total_warm_count'
       /\ ArrivalStep => total_req_count' = total_req_count + 1]_vars

\* arrivals of both kinds have been dispatched
C3_Witness ==
    /\ event \in Arrivals
    /\ total_cold_count > 1
    /\ total_warm_count > 0

\* C4: the clock of generate_trace never decreases during a run
C4_ClockMonotone == [][pc = "loop" => float_le(t, t')]_vars

\* C5: a warm start turns exactly one instance from IDLE to WARM, and no
\* instance that was IDLE was created later than it
C5_WarmNewest ==
    [][(pc = "loop" /\ event' = "warm") =>
          /\ Len(servers') = Len(servers)
          /\ \E i \in 1..Len(servers) :
                /\ servers[i].state = "IDLE"
                /\ servers'[i].state = "WARM"
                /\ \A j \in 1..Len(servers) :
                      /\ j # i => servers'[j] = servers[j]
                      /\ servers[j].state = "IDLE" =>
                            float_le(servers[j].creation_time,
                                     servers[i].creation_time)]_vars

\* a warm start chose the newer of two idle instances
C5_Witness ==
    /\ event = "warm"
    /\ \E i, j \in 1..Len(servers) :
          /\ servers[i].state = "WARM"
          /\ float_le(t, servers[i].next_departure)
          /\ servers[j].state = "IDLE"
          /\ float_lt(servers[j].creation_time, servers[i].creation_time)
          /\ \A k \in 1..Len(servers) :
                k # i => servers[k].state = "IDLE"

\* C6: a dispatched arrival is served warm (one instance goes IDLE to WARM)
\* exactly when some live instance is IDLE; otherwise it is served cold by
\* appending one new COLD instance created at the arrival time; the first
\* arrival of a run leaves one COLD instance, total_cold_count = 1 and
\* total_warm_count = 0
C6_ArrivalClassification ==
    [][ArrivalStep =>
          LET someIdle == \E i \in 1..Len(servers) : servers[i].state = "IDLE"
              servedWarm ==
                  /\ Len(servers') = Len(servers)
                  /\ \E i \in 1..Len(servers) :
                        /\ servers[i].state = "IDLE"
                        /\ servers'[i].state = "WARM"
                  /\ total_warm_count' = total_warm_count + 1
                  /\ total_cold_count' = total_cold_count
              servedCold ==
                  /\ Len(servers') = Len(servers) + 1
                  /\ SubSeq(servers', 1, Len(servers)) = servers
                  /\ servers'[Len(servers')].state = "COLD"
                  /\ servers'[Len(servers')].creation_time = t'
                  /\ total_cold_count' = total_cold_count + 1
                  /\ total_warm_count' = total_warm_count
          IN  /\ someIdle => servedWarm
              /\ ~someIdle => servedCold
              /\ total_req_count = 0 =>
                    /\ Len(servers') = 1
                    /\ servers'[1].state = "COLD"
                    /\ total_cold_count' = 1
                    /\ total_warm_count' = 0]_vars

\* an arrival was served cold while instances were live and none was idle,
\* after an earlier arrival had been served warm
C6_Witness ==
    /\ event = "cold"
    /\ Len(servers) > 1
    /\ total_warm_count > 0
    /\ \A i \in 1..Len(servers) : servers[i].state # "IDLE"

\* C7: with live instances, the loop dispatches the arrival exactly when
\* next_arrival - t is strictly below the least time to a scheduled event
\* of a live instance; on a tie an instance transition is dispatched
C7_TieBreak ==
    [][(pc = "loop" /\ has_server /\ event' \in Dispatched) =>
          LET least == CHOOSE m \in {TimeToEvent(servers[i]) :
                                        i \in 1..Len(servers)} :
                           \A i \in 1..Len(servers) :
                               float_le(m, TimeToEvent(servers[i]))
          IN  (event' \in Arrivals)
                  <=> float_lt(float_sub(next_arrival, t), least)]_vars

\* an instance transition was dispatched at the very time of the pending
\* arrival
C7_Witness ==
    /\ pc = "loop"
    /\ event \in {"departure", "expiration"}
    /\ next_arrival = t
    /\ float_lt(Zero, t)

\* C8: make_transition takes COLD or WARM to IDLE and IDLE to TERM and
\* returns the new state; on TERM it raises and changes nothing; no method
\* of FunctionInstance changes the state of a TERM instance
C8_MakeTransitionTermAbsorbing ==
    [][/\ call'.op = "make_transition" =>
             /\ inst.state \in {"COLD", "WARM"} =>
                   /\ ~call'.raised
                   /\ inst'.state = "IDLE"
                   /\ call'.ret = "IDLE"
             /\ inst.state = "IDLE" =>
                   /\ ~call'.raised
                   /\ inst'.state = "TERM"
                   /\ call'.ret = "TERM"
             /\ inst.state = "TERM" =>
                   /\ call'.raised
                   /\ inst' = inst
       /\ inst.state = "TERM" => inst'.state = "TERM"]_vars

\* make_transition was called on a terminated instance
C8_Witness ==
    /\ call.op = "make_transition"
    /\ call.raised
    /\ inst.state = "TERM"

\* C9: arrival_transition(t) raises on a COLD or WARM instance and then
\* leaves state and both timers unchanged; on an IDLE instance it sets state
\* to WARM, next_departure to t + a warm-service sample and next_termination
\* to next_departure + expiration_threshold
C9_ArrivalTransition ==
    [][call'.op = "arrival_transition" =>
          /\ inst.state \in {"COLD", "WARM"} =>
                /\ call'.raised
                /\ inst'.state = inst.state
                /\ inst'.next_departure = inst.next_departure
                /\ inst'.next_termination = inst.next_termination
          /\ inst.state = "IDLE" =>
                /\ ~call'.raised
                /\ inst'.state = "WARM"
                /\ call'.sample \in WarmSamples
                /\ inst'.next_departure = float_add(call'.t, call'.sample)
                /\ inst'.next_termination =
                       float_add(inst'.next_departure,
                                 inst'.expiration_threshold)]_vars

\* arrival_transition was refused by an instance made WARM by an earlier call
C9_Witness ==
    /\ call.op = "arrival_transition"
    /\ call.raised
    /\ inst.state = "WARM"
    /\ inst.next_departure # inst.creation_time
    /\ inst.next_termination # inst.next_departure

\* C10: get_next_transition_time(t) raises exactly when t is past the
\* scheduled time (next_termination if IDLE, next_departure otherwise), and
\* otherwise returns the scheduled time minus t, which is >= 0
C10_NextTransitionTime ==
    call.op = "get_next_transition_time" =>
        LET sched == IF inst.state = "IDLE" THEN inst.next_termination
                     ELSE inst.next_departure
        IN  /\ call.raised <=> float_lt(sched, call.t)
            /\ ~call.raised => /\ call.val = float_sub(sched, call.t)
                               /\ float_le(Zero, call.val)

\* the time to the termination of an IDLE instance was returned, and it
\* differs from the time to its departure
C10_Witness ==
    /\ call.op = "get_next_transition_time"
    /\ ~call.raised
    /\ inst.state = "IDLE"
    /\ call.val = float_sub(inst.next_termination, call.t)
    /\ inst.next_termination # inst.next_departure

\* identities of the instances held in a collection
Ids(q) == {q[i].id : i \in 1..Len(q)}

\* C11: during a run the archive only grows by appending at its end; an
\* instance is appended exactly when its make_transition returned TERM, and
\* it leaves servers in the same step; no instance is in both collections,
\* archived instances are TERM, live ones are not, and archived instances
\* never change
C11_ArchiveDiscipline ==
    [][pc = "loop" =>
          /\ \/ prev_servers' = prev_servers
             \/ /\ Len(prev_servers') = Len(prev_servers) + 1
                /\ SubSeq(prev_servers', 1, Len(prev_servers)) = prev_servers
          /\ (event' = "expiration") <=> (prev_servers' # prev_servers)
          /\ event' = "expiration" =>
                LET a == prev_servers'[Len(prev_servers')]
                IN  /\ a.id \in Ids(servers)
                    /\ a.id \notin Ids(servers')
                    /\ Len(servers') = Len(servers) - 1
                    /\ \E i \in 1..Len(servers) :
                          /\ servers[i].state = "IDLE"
                          /\ a = [servers[i] EXCEPT !.state = "TERM"]
                          /\ servers' = SubSeq(servers, 1, i - 1)
                                          \o SubSeq(servers, i + 1, Len(servers))
          /\ Ids(servers') \cap Ids(prev_servers') = {}
          /\ \A i \in 1..Len(prev_servers') : prev_servers'[i].state = "TERM"
          /\ \A i \in 1..Len(servers') : servers'[i].state # "TERM"]_vars

\* a second instance was archived while an older instance is still live
C11_Witness ==
    /\ event = "expiration"
    /\ Len(prev_servers) >= 2
    /\ \E i \in 1..Len(servers) :
          servers[i].id < prev_servers[Len(prev_servers)].id

\* C12: after every dispatched event the live and the archived instances
\* together are exactly the instances created in the run, as many as
\* total_cold_count
C12_CreatedAccounted ==
    event \in Dispatched =>
        /\ Len(servers) + Len(prev_servers) = total_cold_count
        /\ Ids(servers) \cup Ids(prev_servers) = 1..total_cold_count
        /\ Cardinality(Ids(servers)) = Len(servers)
        /\ Cardinality(Ids(prev_servers)) = Len(prev_servers)

\* instances were created, some archived and some still live, after a warm
\* start
C12_Witness ==
    /\ event \in Dispatched
    /\ Len(prev_servers) >= 1
    /\ Len(servers) >= 1
    /\ total_warm_count >= 1

\* an instance created at 0 with cold sample 5 and threshold 10, never
\* re-used: due to become IDLE at 5 and TERM at 15, life span 15
LifecycleScenario ==
    LET s0 == FunctionInstance(1, Zero, float(5), float(10))
        d == make_transition(s0)
        x == make_transition(d.inst)
    IN  /\ float_add(Zero, get_next_transition_time(s0, Zero).ret) = float(5)
        /\ d.ret = "IDLE"
        /\ float_add(float(5), get_next_transition_time(d.inst, float(5)).ret)
               = float(15)
        /\ x.ret = "TERM"
        /\ get_life_span(x.inst) = float(15)

\* C13: a departure is dispatched with the clock at the instance's
\* next_departure and an expiration with the clock at its next_termination,
\* i.e. expiration_threshold after its last departure, so the life span of an
\* archived instance is the clock at its termination minus its creation time
C13_LifecycleTiming ==
    [][pc = "loop" =>
          /\ event' = "departure" =>
                \E i \in 1..Len(servers) :
                    /\ servers[i].state \in {"COLD", "WARM"}
                    /\ servers'[i].state = "IDLE"
                    /\ t' = servers[i].next_departure
          /\ event' = "expiration" =>
                LET a == prev_servers'[Len(prev_servers')]
                IN  /\ t' = a.next_termination
                    /\ t' = float_add(a.next_departure, expiration_threshold)
                    /\ get_life_span(a) = float_sub(t', a.creation_time)
          /\ LifecycleScenario]_vars

\* a run has ended: the loop was left at the horizon, or an error aborted it
RunEnded == (pc = "done" /\ float_le(max_time, t)) \/ pc = "error"

\* the spacing of the doubles at the magnitude of x
ulp(x) ==
    LET e == bit_length(x.hi) + LimbBits - Precision
    IN  [neg |-> FALSE, hi |-> 0, lo |-> IF e > 0 THEN 2^e ELSE 1]

\* every duration the arrival source returns moves any clock below the
\* horizon: it is at least the spacing of the doubles at max_time
ArrivalsAdvance == \A a \in arrival_process : float_le(ulp(max_time), a)

\* the loop head as generate_trace enters it with first arrival sample d:
\* clock 0, no instance, the first arrival due at 0 + d
RunStart(d) ==
    /\ pc = "loop"
    /\ float_le(t, Zero) /\ float_le(Zero, t)
    /\ next_arrival = float_add(Zero, d)
    /\ servers = << >>
    /\ idle_count = 0

\* C14 as stated, for a source of one duration d: the run starts in
\* RunStart(d), and an iteration is determined by the clock, next_arrival,
\* the live instances, idle_count and the samples; a run that ends is
\* therefore never again in RunStart(d) after it has served a request (from
\* there the same samples serve the same requests again, for ever)
C14_RunCompletion ==
    \A d \in arrival_process :
        (/\ arrival_process = {d}
         /\ float_le(Zero, expiration_threshold)
         /\ total_req_count > 0)
            => ~RunStart(d)

\* C14, amended: with an arrival source whose durations all move the clock
\* (t + d > t in floating point for every t below the horizon),
\* non-negative service durations and a non-negative threshold, every run
\* ends, at the horizon or by an error
C14_RunCompletionPositiveArrivals ==
    (pc = "loop" /\ float_le(Zero, expiration_threshold) /\ ArrivalsAdvance)
        ~> RunEnded

\* a run whose arrivals all move the clock has ended at the horizon after
\* serving several requests, some of them warm
C14_Witness ==
    /\ pc = "done"
    /\ float_le(Zero, expiration_threshold)
    /\ ArrivalsAdvance
    /\ float_le(max_time, t)
    /\ total_req_count > MaxReq
    /\ total_warm_count >= 1

\* the trace attributes as reset_trace is meant to leave them
EmptyTrace ==
    /\ servers = << >>
    /\ prev_servers = << >>
    /\ total_req_count = 0
    /\ total_cold_count = 0
    /\ total_warm_count = 0
    /\ server_count = 0
    /\ running_count = 0
    /\ idle_count = 0

\* C15: reset_trace leaves both collections empty and all six counters 0
\* whatever a previous run left; a second reset_trace changes nothing; and
\* generate_trace starts its loop from that state at clock 0
C15_IdempotentReset ==
    [][/\ event' \in {"reset", "start"} => EmptyTrace'
       /\ event' = "start" => (t' = Zero /\ pc' = "loop")
       /\ (event = "reset" /\ event' = "reset") => UNCHANGED vars]_vars

\* reset_trace was called after a run that reached the horizon
C15_Witness ==
    /\ event = "reset"
    /\ pc = "done"
    /\ float_le(max_time, t)
    /\ EmptyTrace

\* C16: construction fails when both rates are given and warm_service_rate <
\* cold_service_rate (e.g. warm 1, cold 2), and when the arrival, the warm or
\* the cold source is given neither as a process nor as a rate; equal warm
\* and cold rates are accepted
C16_ConstructionValidation ==
    ctor.done =>
        LET kw == ctor.kwargs
            has(k) == k \in DOMAIN kw
            bothRates == has("warm_service_rate") /\ has("cold_service_rate")
            noArrival == ctor.arrival_process = NoProcess
                            /\ ~has("arrival_rate")
            noWarm == ctor.warm_service_process = NoProcess
                         /\ ~has("warm_service_rate")
            noCold == ctor.cold_service_process = NoProcess
                         /\ ~has("cold_service_rate")
        IN  /\ (bothRates /\ kw["warm_service_rate"]
                                < kw["cold_service_rate"])
                   => ctor.result.raised
            /\ (noArrival \/ noWarm \/ noCold) => ctor.result.raised
            /\ (bothRates /\ kw["warm_service_rate"] = kw["cold_service_rate"]
                   /\ ~noArrival)
                   => ~ctor.result.raised

\* construction with warm_service_rate 1 and cold_service_rate 2 and an
\* arrival rate was refused for the order of the rates
C16_Witness ==
    /\ ctor.done
    /\ DOMAIN ctor.kwargs = RateKeys
    /\ ctor.kwargs["warm_service_rate"] = 1
    /\ ctor.kwargs["cold_service_rate"] = 2
    /\ ctor.result.raised
    /\ ctor.result.error
          = "Warm service rate cannot be smaller than cold service rate!"

\* the time at which the next event of s is scheduled
ScheduledTime(s) ==
    IF s.state = "IDLE" THEN s.next_termination ELSE s.next_departure

\* the least element of a non-empty set of times
Least(S) == CHOOSE m \in S : \A x \in S : float_le(m, x)

\* C17: every dispatched event is the earliest pending one: the clock after
\* the step is the least of next_arrival and the scheduled times of the live
\* instances; a dispatched instance transition is that of the first instance
\* in servers attaining the least scheduled time
C17_EarliestEvent ==
    [][(pc = "loop" /\ event' \in Dispatched) =>
          LET sched == {ScheduledTime(servers[i]) : i \in 1..Len(servers)}
          IN  /\ t' = Least({next_arrival} \cup sched)
              /\ event' \in {"departure", "expiration"} =>
                    LET i == CHOOSE k \in 1..Len(servers) :
                               /\ ScheduledTime(servers[k]) = Least(sched)
                               /\ \A j \in 1..(k - 1) :
                                     float_lt(Least(sched),
                                              ScheduledTime(servers[j]))
                    IN  /\ event' = "departure" =>
                              /\ servers[i].state \in {"COLD", "WARM"}
                              /\ servers'[i].state = "IDLE"
                              /\ \A j \in 1..Len(servers) :
                                    j # i => servers'[j] = servers[j]
                        /\ event' = "expiration" =>
                              /\ prev_servers'[Len(prev_servers')].id
                                    = servers[i].id
                              /\ servers[i].id \notin Ids(servers')]_vars

\* number of live instances whose state is in S
CountIn(S) == Cardinality({i \in 1..Len(servers) : servers[i].state \in S})

\* C18: after every dispatched event idle_count is the number of live IDLE
\* instances and running_count the number of live COLD or WARM instances,
\* and neither counter is negative
C18_CachedCounters ==
    event \in Dispatched =>
        /\ idle_count = CountIn({"IDLE"})
        /\ running_count = CountIn({"COLD", "WARM"})
        /\ idle_count >= 0
        /\ running_count >= 0

\* a warm start was dispatched that left idle and running instances behind
C18_Witness ==
    /\ event = "warm"
    /\ idle_count >= 1
    /\ running_count >= 1

\* C19: with non-negative durations and threshold no run raises: the
\* transition-time query is never made past an instance's scheduled time, a
\* warm start always finds an IDLE instance to hand the arrival to, and no
\* live instance is TERM when make_transition is called
C19_NoInvariantViolation ==
    float_le(Zero, expiration_threshold) =>
        /\ pc # "error"
        /\ event # "error"
        /\ pc = "loop" =>
              /\ ~transition_time_raises
              /\ \A i \in 1..Len(servers) : servers[i].state # "TERM"
              /\ is_warm_start =>
                    /\ Len(idle_instances) > 0
                    /\ ~arrival_transition(
                           servers[idle_instances[argmax(creation_times)]],
                           next_arrival, Zero).raised

\* some busy instance is due to end its service at the time of the next
\* arrival
BusyDepartsAtArrival ==
    \E i \in 1..Len(servers) :
        /\ servers[i].state \in {"COLD", "WARM"}
        /\ servers[i].next_departure = next_arrival

\* an arrival is dispatched at the time at which some instance, live or
\* archived, ended its last service
BoundaryArrival ==
    /\ ArrivalStep
    /\ \E s \in Range(servers) \cup Range(prev_servers) :
          s.next_departure = next_arrival

\* the arrival is served warm, after the departures due at its time
ServedWarmAfterDeparture ==
    /\ \A i \in 1..Len(servers) :
          servers[i].next_departure = next_arrival =>
              servers[i].state = "IDLE"
    /\ event' = "warm"
    /\ Len(servers') = Len(servers)
    /\ total_cold_count' = total_cold_count
    /\ total_warm_count' = total_warm_count + 1

\* C20: with expiration_threshold > 0, while a busy instance is due to end
\* its service at the time of the next arrival the loop dispatches an
\* instance transition, neither the arrival nor an error; and the arrival
\* dispatched at the time an instance ended its service is served warm,
\* without creating an instance
C20_BoundaryWarm ==
    [][float_lt(Zero, expiration_threshold) =>
          /\ (pc = "loop" /\ float_lt(t, max_time) /\ BusyDepartsAtArrival)
                => event' \in {"departure", "expiration"}
          /\ BoundaryArrival => ServedWarmAfterDeparture]_vars

====
